---------------------------- MODULE Spec2Model ----------------------------
(***************************************************************************)
(* A model of the Turing-machine simulator of src/src/main.rs.             *)
(*                                                                         *)
(* The rule table ("turds") is an ordered sequence of records              *)
(*   [current, read, write, step, next]                                    *)
(* and the machine is the record [tape, head, state] of struct Machine.    *)
(* Rust indexes the tape from 0, TLA+ sequences from 1: the cell           *)
(* self.tape[self.head] is m.tape[m.head + 1] here; head keeps the         *)
(* 0-based value of the source.                                            *)
(***************************************************************************)
EXTENDS Integers, Sequences, FiniteSets

\* ------------------------------------------------------------------ bounds
\* Longest rule table, longest tape and the number of loop iterations that
\* continue which the model explores.
MaxRules == 2
MaxTape  == 3
MaxSteps == 4
\* Longest rule file, in lines.
MaxLines == 3

\* ------------------------------------------------------------ input sets
\* State names and symbols are free strings in the source (type State,
\* type Symbol); the model draws them from small sets.  "Z" is a state name
\* the operator can type that no rule mentions.
RuleStates    == {"A", "B"}
Symbols       == {"0", "1"}
InitialStates == {"A", "B", "Z"}

\* enum Step
Step == {"L", "R"}

\* The (write, step, next) triples a rule of the model may carry.
Effects ==
    { <<"1", "R", "B">>, <<"0", "R", "A">>, <<"1", "L", "A">>, <<"0", "L", "B">> }

\* struct Turd: every rule over the input sets above.
Turd ==
    { [current |-> c, read |-> r, write |-> e[1], step |-> e[2], next |-> e[3]] :
        c \in RuleStates, r \in Symbols, e \in Effects }

BoundedSeq(S, n) == UNION { [1..k -> S] : k \in 0..n }

\* What a successful load of the rule file can yield: any sequence of rules,
\* the empty one included (a file of blank lines only).
Programs == BoundedSeq(Turd, MaxRules)

\* What binding.split_whitespace() can yield: any sequence of tokens, the
\* empty one included (an empty or all-blank tape file).
Tapes == BoundedSeq(Symbols, MaxTape)

VARIABLES
    turds,          \* main: the loaded rule table
    initial_state,  \* main: the line read from stdin
    binding,        \* main: the tokens of the tape file
    machine,        \* main: the Machine value
    pc,             \* main: "args" | "read_rules" | "prompt" | "read_tape" |
                    \*   "loop" | "exit" (returned Ok) | "failed" (returned
                    \*   Err) | "panic"
    ret,            \* what the last call of machine.next returned
    steps,          \* number of loop iterations that went round again
    output,         \* the configurations printed so far, in order
    content,        \* main: the lines of the rule file
    states,         \* main: the state names listed for the operator
    error           \* the error main ended with, if any

vars == <<turds, initial_state, binding, machine, pc, ret, steps, output,
          content, states, error>>

\* ------------------------------------------------------------ Machine::next

\* Mutant of Matches: the symbol under the head is not compared.
MatchesStateOnly(turd, m) == turd.current = m.state

\* Mutant of Matches: the machine's state is not compared.
MatchesSymbolOnly(turd, m) ==
    /\ m.head < Len(m.tape)
    /\ turd.read = m.tape[m.head + 1]

\* The guard of line 124.  && is short-circuit: the tape is read only when the
\* state comparison succeeded.
Matches(turd, m) ==
    /\ turd.current = m.state
    /\ turd.read = m.tape[m.head + 1]

\* The read self.tape[self.head] of line 124 is bounds-checked: it panics
\* when head is not an index of the tape, and it is evaluated only for a rule
\* whose current state equals the machine's.
IndexPanics(turd, m) ==
    /\ turd.current = m.state
    /\ m.head >= Len(m.tape)

\* Mutant of WriteCell: the cell after the head's is the one written.
WriteCellShifted(tape, head, symbol) ==
    [tape EXCEPT ![((head + 1) % Len(tape)) + 1] = symbol]

\* self.tape[self.head] = turd.write
WriteCell(tape, head, symbol) == [tape EXCEPT ![head + 1] = symbol]

\* Mutant of MoveHead: the head stops at either end of the tape.
MoveHeadNoWrap(step, head, len) ==
    IF step = "L"
      THEN IF head = 0 THEN 0 ELSE head - 1
      ELSE IF head = len - 1 THEN head ELSE head + 1

\* Mutant of MoveHead: the arms of the match are exchanged.
MoveHeadSwapped(step, head, len) ==
    IF step = "R"
      THEN IF head = 0 THEN len - 1 ELSE head - 1
      ELSE (head + 1) % len

\* Mutant of MoveHead: Right adds one without the modulo.
MoveHeadNoModulo(step, head, len) ==
    IF step = "L"
      THEN IF head = 0 THEN len - 1 ELSE head - 1
      ELSE head + 1

\* The match of lines 126-130.  len - 1 and % len are reached only after the
\* bounds-checked read of line 124 succeeded, hence with len >= 1.
MoveHead(step, head, len) ==
    IF step = "L"
      THEN IF head = 0 THEN len - 1 ELSE head - 1
      ELSE (head + 1) % len

\* Mutant of Apply: the head moves before the cell is written.
ApplyMoveFirst(m, turd) ==
    LET moved == MoveHead(turd.step, m.head, Len(m.tape))
    IN  [ tape  |-> WriteCell(m.tape, moved, turd.write),
          head  |-> moved,
          state |-> turd.next ]

\* Mutant of Apply: moving Right off the last cell appends a cell instead of
\* wrapping to cell 0.
ApplyExtend(m, turd) ==
    LET written == WriteCell(m.tape, m.head, turd.write)
    IN  IF turd.step = "R" /\ m.head = Len(written) - 1
          THEN [ tape  |-> Append(written, "0"),
                 head  |-> m.head + 1,
                 state |-> turd.next ]
          ELSE [ tape  |-> written,
                 head  |-> MoveHead(turd.step, m.head, Len(written)),
                 state |-> turd.next ]

\* Mutant of Apply: the state is taken from the rule's write field (State and
\* Symbol are the same type, &str).
ApplyStateFromWrite(m, turd) ==
    LET written == WriteCell(m.tape, m.head, turd.write)
    IN  [ tape  |-> written,
          head  |-> MoveHead(turd.step, m.head, Len(written)),
          state |-> turd.write ]

\* The body of the if of lines 125-131: write, then move, then change state.
Apply(m, turd) ==
    LET written == WriteCell(m.tape, m.head, turd.write)
    IN  [ tape  |-> written,
          head  |-> MoveHead(turd.step, m.head, Len(written)),
          state |-> turd.next ]

\* The for loop of lines 123-135 from the i-th rule on.
RECURSIVE Scan(_, _, _)
Scan(m, program, i) ==
    IF i > Len(program)
      THEN [machine |-> m, ret |-> "false"]
      ELSE IF IndexPanics(program[i], m)
        THEN [machine |-> m, ret |-> "panic"]
        ELSE IF Matches(program[i], m)
          THEN [machine |-> Apply(m, program[i]), ret |-> "true"]
          ELSE Scan(m, program, i + 1)

\* Mutant of next: the rules are scanned from the last to the first, so the
\* last rule with the machine's key is the one applied.
RECURSIVE ScanBack(_, _, _)
ScanBack(m, program, i) ==
    IF i < 1
      THEN [machine |-> m, ret |-> "false"]
      ELSE IF IndexPanics(program[i], m)
        THEN [machine |-> m, ret |-> "panic"]
        ELSE IF Matches(program[i], m)
          THEN [machine |-> Apply(m, program[i]), ret |-> "true"]
          ELSE ScanBack(m, program, i - 1)

nextLastMatch(m, program) == ScanBack(m, program, Len(program))

\* Machine::next: the configuration it leaves and what it returns.
next(m, program) == Scan(m, program, 1)

\* ---------------------------------------------------------- the rule file
\* A line of text is a sequence of items: a word (a maximal run of
\* non-whitespace characters) or " " (a run of whitespace).  Two words that
\* follow each other are separated by a single blank.

IsSpace(item) == item = " "

RECURSIVE TrimStart(_)
TrimStart(line) ==
    IF line # <<>> /\ IsSpace(Head(line)) THEN TrimStart(Tail(line)) ELSE line

RECURSIVE TrimEnd(_)
TrimEnd(line) ==
    IF line # <<>> /\ IsSpace(line[Len(line)])
      THEN TrimEnd(SubSeq(line, 1, Len(line) - 1))
      ELSE line

\* Mutant of Trim: the line is taken as it is.
TrimNothing(line) == line

\* str::trim
Trim(line) == TrimEnd(TrimStart(line))

\* Mutant of SplitWhitespace: only the first five words are kept.
SplitWhitespaceFive(line) ==
    LET words == SelectSeq(line, LAMBDA item : ~IsSpace(item))
    IN  IF Len(words) > 5 THEN SubSeq(words, 1, 5) ELSE words

\* s.split_whitespace().map(str::trim).collect::<Vec<_>>()
SplitWhitespace(line) == SelectSeq(line, LAMBDA item : ~IsSpace(item))

NoError == [kind |-> "none", line |-> 0, token |-> "", at |-> 0]

\* An error value: its variant, the line number and the token its message
\* carries, and the line of main that returned it.
Err(kind, line, token, at) ==
    [kind |-> kind, line |-> line, token |-> token, at |-> at]

\* Mutant of StepTryFrom: the move token is compared without regard to case.
StepTryFromAnyCase(value) ==
    CASE value \in {"L", "l"} -> [ok |-> TRUE, step |-> "L", token |-> value]
      [] value \in {"R", "r"} -> [ok |-> TRUE, step |-> "R", token |-> value]
      [] OTHER                -> [ok |-> FALSE, step |-> "L", token |-> value]

\* impl TryFrom<&str> for Step: the Step, or the token the Transformation
\* error names.
StepTryFrom(value) ==
    CASE value = "L" -> [ok |-> TRUE, step |-> "L", token |-> value]
      [] value = "R" -> [ok |-> TRUE, step |-> "R", token |-> value]
      [] OTHER       -> [ok |-> FALSE, step |-> "L", token |-> value]

\* Mutant of parse_turd: the index of enumerate() is reported as it is,
\* without the + 1.
parse_turd_zero_based(index, line) ==
    LET tokens == SplitWhitespace(line)
    IN  IF Len(tokens) # 5
          THEN [ok |-> FALSE, error |-> Err("Parse", index, "", 163)]
          ELSE LET st == StepTryFrom(tokens[4])
               IN  IF ~st.ok
                     THEN [ok |-> FALSE,
                           error |-> Err("Transformation", 0, st.token, 163)]
                     ELSE [ok |-> TRUE,
                           turd |-> [current |-> tokens[1], read |-> tokens[2],
                                     write |-> tokens[3], step |-> st.step,
                                     next |-> tokens[5]]]

\* Turd::parse_turd on the pair (index, line) that enumerate() made: index is
\* 0-based.  The token count is tested first, then the move token.
parse_turd(index, line) ==
    LET tokens == SplitWhitespace(line)
    IN  IF Len(tokens) # 5
          THEN [ok |-> FALSE, error |-> Err("Parse", index + 1, "", 163)]
          ELSE LET st == StepTryFrom(tokens[4])
               IN  IF ~st.ok
                     THEN [ok |-> FALSE,
                           error |-> Err("Transformation", 0, st.token, 163)]
                     ELSE [ok |-> TRUE,
                           turd |-> [current |-> tokens[1], read |-> tokens[2],
                                     write |-> tokens[3], step |-> st.step,
                                     next |-> tokens[5]]]

\* Mutant of LoadFrom: a line that does not parse is skipped.
RECURSIVE LoadFromSkipping(_, _, _)
LoadFromSkipping(lines, i, acc) ==
    IF i > Len(lines)
      THEN [ok |-> TRUE, turds |-> acc]
      ELSE LET line == Trim(lines[i])
           IN  IF line = <<>>
                 THEN LoadFromSkipping(lines, i + 1, acc)
                 ELSE LET r == parse_turd(i - 1, line)
                      IN  IF r.ok
                            THEN LoadFromSkipping(lines, i + 1, Append(acc, r.turd))
                            ELSE LoadFromSkipping(lines, i + 1, acc)

\* Mutant of LoadFrom: every line is parsed and the last error is the one
\* returned.
RECURSIVE LoadFromLastError(_, _, _)
LoadFromLastError(lines, i, acc) ==
    IF i > Len(lines)
      THEN [ok |-> TRUE, turds |-> acc]
      ELSE LET line == Trim(lines[i])
           IN  IF line = <<>>
                 THEN LoadFromLastError(lines, i + 1, acc)
                 ELSE LET r    == parse_turd(i - 1, line)
                          rest == LoadFromLastError(lines, i + 1,
                                    IF r.ok THEN Append(acc, r.turd) ELSE acc)
                      IN  IF r.ok \/ ~rest.ok THEN rest
                          ELSE [ok |-> FALSE, error |-> r.error]

\* Lines 152-163 from the i-th line on (i is 1-based here, enumerate() is
\* 0-based): trim, number, drop the empty lines, parse, and collect into a
\* Result, which stops at the first Err.
RECURSIVE LoadFrom(_, _, _)
LoadFrom(lines, i, acc) ==
    IF i > Len(lines)
      THEN [ok |-> TRUE, turds |-> acc]
      ELSE LET line == Trim(lines[i])
           IN  IF line = <<>>
                 THEN LoadFrom(lines, i + 1, acc)
                 ELSE LET r == parse_turd(i - 1, line)
                      IN  IF r.ok
                            THEN LoadFrom(lines, i + 1, Append(acc, r.turd))
                            ELSE [ok |-> FALSE, error |-> r.error]

Load(lines) == LoadFrom(lines, 1, <<>>)

\* The bytes of the words of the model (UTF-8).
Bytes(w) ==
    CASE w = "0"  -> <<48>>
      [] w = "1"  -> <<49>>
      [] w = "A"  -> <<65>>
      [] w = "AB" -> <<65, 66>>
      [] w = "B"  -> <<66>>
      [] w = "L"  -> <<76>>
      [] w = "LR" -> <<76, 82>>
      [] w = "R"  -> <<82>>
      [] w = "Z"  -> <<90>>
      [] w = "l"  -> <<108>>
      [] w = "x"  -> <<120>>

\* impl Ord for str: lexicographic by bytes.
StrLess(a, b) ==
    LET x == Bytes(a)
        y == Bytes(b)
    IN  \E k \in 1..Len(y) :
          /\ \A j \in 1..(k - 1) : j <= Len(x) /\ x[j] = y[j]
          /\ \/ k = Len(x) + 1
             \/ k <= Len(x) /\ x[k] < y[k]

\* Mutant of BTreeInsert: the name is pushed at the end, as onto a Vec.
VecPush(set, name) == Append(set, name)

\* Mutant of BTreeInsert: names are kept unique but in first-seen order.
InsertUnsorted(set, name) ==
    IF \E i \in 1..Len(set) : set[i] = name THEN set ELSE Append(set, name)

\* BTreeSet::insert on the set held as its ascending sequence.
BTreeInsert(set, name) ==
    IF \E i \in 1..Len(set) : set[i] = name
      THEN set
      ELSE LET k == Cardinality({i \in 1..Len(set) : StrLess(set[i], name)})
           IN  SubSeq(set, 1, k) \o <<name>> \o SubSeq(set, k + 1, Len(set))

\* flat_map(|t| [t.current, t.next]).collect::<BTreeSet<_>>() from the i-th
\* rule on.
RECURSIVE CollectStates(_, _, _)
CollectStates(program, i, set) ==
    IF i > Len(program)
      THEN set
      ELSE CollectStates(program, i + 1,
              BTreeInsert(BTreeInsert(set, program[i].current), program[i].next))

\* Turd::states_of_turds: the names in the order into_iter() yields them.
states_of_turds(program) == CollectStates(program, 1, <<>>)

\* A rule file that loads to the rule table program: one line per rule.
RuleFile(program) ==
    [i \in 1..Len(program) |->
        << program[i].current, program[i].read, program[i].write,
           program[i].step, program[i].next >>]

\* The lines a rule file of the model is made of.
RuleLines ==
    { <<>>,
      <<" ">>,
      <<"A", "0", "1", "R", "B">>,
      <<" ", "B", " ", "1", "0", "R", "A", " ">>,
      <<"A", "0", "0", "L", "AB">>,
      <<"A", "0", "1", "R">>,
      <<"A", "0", "1", "R", "B", "x">>,
      <<"A", "0", "1", "l", "B">>,
      <<"B", "1", "0", "LR", "A">> }

\* content.lines(): the rule files of the model.
Files == BoundedSeq(RuleLines, MaxLines)

\* --------------------------------------------------------------------- main

\* Mutant of Continues: the loop never breaks.
ContinuesAlways(r) == TRUE

\* if !machine.next(&turds) { break; }
Continues(r) == r = "true"

\* Lines 174-179: the machine main builds from the tape file and the
\* operator's answer.
NewMachine(tokens, st) == [tape |-> tokens, head |-> 0, state |-> st]

\* Mutant of Display: only the first configuration is printed.
DisplayFirstOnly(out, m) == IF out = <<>> THEN Append(out, m) ELSE out

\* print!("{machine}"): the configuration is added to what was printed.
Display(out, m) == Append(out, m)

\* The state main is in when it enters the loop, for any rule table that
\* loaded, any answer of the operator and any tape file.
Init ==
    /\ turds \in Programs
    /\ initial_state \in InitialStates
    /\ binding \in Tapes
    /\ machine = NewMachine(binding, initial_state)
    /\ pc = "loop"
    /\ ret = "none"
    /\ steps = 0
    /\ output = <<>>
    /\ content = RuleFile(turds)
    /\ states = states_of_turds(turds)
    /\ error = NoError

\* One iteration of the loop of lines 180-186 in which next returns true:
\* print, step, go round again.
LoopStep ==
    /\ pc = "loop"
    /\ steps < MaxSteps
    /\ LET r == next(machine, turds)
       IN  /\ r.ret # "panic"
           /\ Continues(r.ret)
           /\ output' = Display(output, machine)
           /\ machine' = r.machine
           /\ ret' = r.ret
           /\ steps' = steps + 1
           /\ pc' = "loop"
    /\ UNCHANGED <<turds, initial_state, binding, content, states, error>>

\* The iteration in which next returns false: print, step, break, return Ok.
LoopBreak ==
    /\ pc = "loop"
    /\ LET r == next(machine, turds)
       IN  /\ r.ret # "panic"
           /\ ~Continues(r.ret)
           /\ output' = Display(output, machine)
           /\ machine' = r.machine
           /\ ret' = r.ret
           /\ pc' = "exit"
    /\ UNCHANGED <<turds, initial_state, binding, steps, content, states, error>>

\* The iteration in which next panics on the tape index: the configuration
\* was printed, the process aborts.
LoopPanic ==
    /\ pc = "loop"
    /\ LET r == next(machine, turds)
       IN  /\ r.ret = "panic"
           /\ output' = Display(output, machine)
           /\ machine' = r.machine
           /\ ret' = r.ret
           /\ pc' = "panic"
    /\ UNCHANGED <<turds, initial_state, binding, steps, content, states, error>>

Next == LoopStep \/ LoopBreak \/ LoopPanic

Spec == Init /\ [][Next]_vars

\* ------------------------------------------------- main from its first line
\* A second specification: main from the start, with the command line, the
\* two files and the operator's answer chosen by the environment.

\* Before main reads them, initial_state and machine hold nothing; the model
\* gives them these values, which no action reads.
NoState == ""
NoMachine == NewMachine(<<>>, NoState)

InitMain ==
    /\ pc = "args"
    /\ turds = <<>>
    /\ initial_state = NoState
    /\ binding = <<>>
    /\ machine = NoMachine
    /\ ret = "none"
    /\ steps = 0
    /\ output = <<>>
    /\ content = <<>>
    /\ states = <<>>
    /\ error = NoError

\* Lines 142-147: fewer than two file arguments.
ArgsMissing ==
    /\ pc = "args"
    /\ pc' = "failed"
    /\ error' = Err("Args", 0, "", 144)
    /\ UNCHANGED <<turds, initial_state, binding, machine, ret, steps, output,
                   content, states>>

\* Lines 148-149: both paths are there.
ArgsGiven ==
    /\ pc = "args"
    /\ pc' = "read_rules"
    /\ UNCHANGED <<turds, initial_state, binding, machine, ret, steps, output,
                   content, states, error>>

\* Line 151: the rule file cannot be read.
ReadRulesFails ==
    /\ pc = "read_rules"
    /\ pc' = "failed"
    /\ error' = Err("Io", 0, "", 151)
    /\ UNCHANGED <<turds, initial_state, binding, machine, ret, steps, output,
                   content, states>>

\* Lines 151-168: the rule file is read, every line parses, and the state
\* names are listed.
LoadRules ==
    /\ pc = "read_rules"
    /\ \E file \in Files :
          LET r == Load(file)
          IN  /\ r.ok
              /\ content' = file
              /\ turds' = r.turds
              /\ states' = states_of_turds(r.turds)
    /\ pc' = "prompt"
    /\ UNCHANGED <<initial_state, binding, machine, ret, steps, output, error>>

\* Lines 151-163: the rule file is read and some line does not parse.
LoadRulesFails ==
    /\ pc = "read_rules"
    /\ \E file \in Files :
          LET r == Load(file)
          IN  /\ ~r.ok
              /\ content' = file
              /\ error' = r.error
    /\ pc' = "failed"
    /\ UNCHANGED <<turds, initial_state, binding, machine, ret, steps, output,
                   states>>

\* Line 170: flushing the prompt fails.
FlushFails ==
    /\ pc = "prompt"
    /\ pc' = "failed"
    /\ error' = Err("Io", 0, "", 170)
    /\ UNCHANGED <<turds, initial_state, binding, machine, ret, steps, output,
                   content, states>>

\* Line 171: the operator's line is read; it is checked against nothing.
ReadInitialState ==
    /\ pc = "prompt"
    /\ \E st \in InitialStates : initial_state' = st
    /\ pc' = "read_tape"
    /\ UNCHANGED <<turds, binding, machine, ret, steps, output, content,
                   states, error>>

\* Line 171: reading the line fails (lines().next() is Some(Err)).
StdinFails ==
    /\ pc = "prompt"
    /\ pc' = "failed"
    /\ error' = Err("Io", 0, "", 171)
    /\ UNCHANGED <<turds, initial_state, binding, machine, ret, steps, output,
                   content, states>>

\* Line 171: standard input is at its end (lines().next() is None) and
\* unwrap() panics.
StdinClosed ==
    /\ pc = "prompt"
    /\ pc' = "panic"
    /\ error' = Err("Panic", 0, "", 171)
    /\ UNCHANGED <<turds, initial_state, binding, machine, ret, steps, output,
                   content, states>>

\* Line 174: the tape file cannot be read.
ReadTapeFails ==
    /\ pc = "read_tape"
    /\ pc' = "failed"
    /\ error' = Err("Io", 0, "", 174)
    /\ UNCHANGED <<turds, initial_state, binding, machine, ret, steps, output,
                   content, states>>

\* Lines 174-179: the tape file is read and the machine is built.
ReadTape ==
    /\ pc = "read_tape"
    /\ \E tokens \in Tapes :
          /\ binding' = tokens
          /\ machine' = NewMachine(tokens, initial_state)
    /\ pc' = "loop"
    /\ UNCHANGED <<turds, initial_state, ret, steps, output, content, states,
                   error>>

NextMain ==
    \/ ArgsMissing \/ ArgsGiven
    \/ ReadRulesFails \/ LoadRules \/ LoadRulesFails
    \/ FlushFails \/ ReadInitialState \/ StdinFails \/ StdinClosed
    \/ ReadTapeFails \/ ReadTape
    \/ LoopStep \/ LoopBreak \/ LoopPanic

SpecMain == InitMain /\ [][NextMain]_vars

TypeOK ==
    /\ binding \in Tapes
    /\ pc \in {"args", "read_rules", "prompt", "read_tape", "loop", "exit",
              "failed", "panic"}
    /\ ret \in {"none", "true", "false", "panic"}
    /\ steps \in 0..MaxSteps
    /\ machine.head \in Nat
    /\ Len(output) <= MaxSteps + 1

\* ------------------------------------------------- vocabulary of the claims
\* These definitions state what the specification says, in its own terms;
\* they do not model code.

\* The head is an index of the tape.
InRange(m) == m.head < Len(m.tape)

\* Rule turd has the machine's (state, tape[head]) as its (current, read).
KeyMatch(turd, m) ==
    /\ InRange(m)
    /\ turd.current = m.state
    /\ turd.read = m.tape[m.head + 1]

HasMatch(m, program) == \E i \in 1..Len(program) : KeyMatch(program[i], m)

\* The smallest index of a rule with the machine's key.
FirstMatch(m, program) ==
    CHOOSE i \in 1..Len(program) :
        /\ KeyMatch(program[i], m)
        /\ \A j \in 1..(i - 1) : ~KeyMatch(program[j], m)

\* One circular move on a tape of len cells.
Moved(step, head, len) ==
    IF step = "L" THEN (head + len - 1) % len ELSE (head + 1) % len

\* The configuration the specification prescribes after applying turd.
Effect(m, turd) ==
    [ tape  |-> [k \in 1..Len(m.tape) |->
                    IF k = m.head + 1 THEN turd.write ELSE m.tape[k]],
      head  |-> Moved(turd.step, m.head, Len(m.tape)),
      state |-> turd.next ]

\* This step of the model is a call of step (every loop iteration prints
\* once and calls step once).
Called == output' # output

\* The configuration the latest call of step started from.
Before == output[Len(output)]

\* ------------------------------------------------------------------ claims

\* C1: on a non-empty tape, step returns false if and only if no rule has
\* the machine's (state, tape[head]) as its (current_state, read_symbol),
\* and a call that returns false leaves tape, head and state as they were.
C1_FalseIffNoMatch ==
    [][ (Called /\ Len(machine.tape) > 0 /\ InRange(machine)) =>
          /\ ret' \in {"true", "false"}
          /\ (ret' = "false") <=> ~HasMatch(machine, turds)
          /\ (ret' = "false") => (machine' = machine) ]_vars

\* C1 witness: a call returned false after the machine had made steps, with
\* a rule for the state but none for the symbol under the head.
C1_Witness ==
    /\ ret = "false"
    /\ steps > 0
    /\ Len(machine.tape) > 0
    /\ machine = Before
    /\ \E i \in 1..Len(turds) : turds[i].current = machine.state

\* C2: first match wins: a step that finds rules with the machine's key
\* applies the write, move and next state of the one with the smallest
\* index, at every step of a run.
C2_FirstMatchWins ==
    [][ (Called /\ HasMatch(machine, turds)) =>
          machine' = Effect(machine, turds[FirstMatch(machine, turds)]) ]_vars

\* C2 witness: two rules with the same key and different effects, the key
\* matched, and the step taken was at least the second of the run.
C2_Witness ==
    /\ Len(turds) = 2
    /\ turds[1].current = turds[2].current
    /\ turds[1].read = turds[2].read
    /\ steps >= 2
    /\ ret = "true"
    /\ KeyMatch(turds[1], Before)
    /\ Effect(Before, turds[1]) # Effect(Before, turds[2])
    /\ machine = Effect(Before, turds[1])

\* C3: head movement is circular on a tape of L >= 1 cells: Left from 0
\* yields L-1, Right from L-1 yields 0, otherwise Left yields head-1 and
\* Right yields head+1.
C3_HeadWraps ==
    [][ (Called /\ HasMatch(machine, turds)) =>
          LET L    == Len(machine.tape)
              h    == machine.head
              move == turds[FirstMatch(machine, turds)].step
          IN  /\ (move = "L" /\ h = 0)     => machine'.head = L - 1
              /\ (move = "R" /\ h = L - 1) => machine'.head = 0
              /\ (move = "L" /\ h # 0)     => machine'.head = h - 1
              /\ (move = "R" /\ h # L - 1) => machine'.head = h + 1 ]_vars

\* C3 witness: on a tape of three cells one run wrapped Left from 0 to 2
\* and Right from 2 to 0.
C3_Witness ==
    /\ Len(machine.tape) = 3
    /\ \E k \in 1..(Len(output) - 1) :
          output[k].head = 0 /\ output[k + 1].head = 2
    /\ \E k \in 1..Len(output) :
          /\ output[k].head = 2
          /\ IF k < Len(output) THEN output[k + 1].head = 0
                                ELSE ret = "true" /\ machine.head = 0

\* C4: a step that finds a matching rule returns true, leaves the rule's
\* write_symbol in the cell the head was on before the move, moves the head
\* once as the rule says and makes the rule's next_state the state.
C4_MatchEffect ==
    [][ (Called /\ HasMatch(machine, turds)) =>
          LET turd == turds[FirstMatch(machine, turds)]
          IN  /\ ret' = "true"
              /\ machine'.tape[machine.head + 1] = turd.write
              /\ machine'.head =
                    Moved(turd.step, machine.head, Len(machine.tape))
              /\ machine'.state = turd.next ]_vars

\* C4 witness: a step wrote a symbol different from the one it read, moved
\* the head to another cell and changed the state.
C4_Witness ==
    /\ ret = "true"
    /\ machine.tape[Before.head + 1] # Before.tape[Before.head + 1]
    /\ machine.head # Before.head
    /\ machine.state # Before.state

\* C5: the tape never changes length: it always has as many cells as the
\* tape file had tokens.
C5_TapeLengthFixed == Len(machine.tape) = Len(binding)

\* C5 witness: the machine made steps on a tape of several cells, wrapped
\* past the right end and changed the tape.
C5_Witness ==
    /\ Len(binding) >= 2
    /\ machine.tape # binding
    /\ ret = "true"
    /\ Before.head = Len(binding) - 1
    /\ machine.head = 0

\* C6: halted is terminal: once step has returned false, another call with
\* the same rules returns false again and changes nothing, the run loop has
\* left the loop, and nothing happens any more.
C6_HaltedIsTerminal ==
    /\ [](ret = "false" =>
            /\ pc = "exit"
            /\ next(machine, turds).ret = "false"
            /\ next(machine, turds).machine = machine)
    /\ [][ret = "false" => UNCHANGED vars]_vars

\* C6 witness: the run halted after some successful steps.
C6_Witness ==
    /\ pc = "exit"
    /\ ret = "false"
    /\ steps >= 2
    /\ HasMatch(output[1], turds)

\* The rule table, tape and initial state of the end-to-end example.
ExampleTurds ==
    << [current |-> "A", read |-> "0", write |-> "1", step |-> "R", next |-> "B"],
       [current |-> "B", read |-> "1", write |-> "0", step |-> "R", next |-> "A"] >>

IsExample ==
    /\ turds = ExampleTurds
    /\ binding = <<"0", "0", "0">>
    /\ initial_state = "A"

ExampleFinal == [tape |-> <<"1", "0", "0">>, head |-> 1, state |-> "B"]

\* C8: in the end-to-end example (rules "A 0 1 R B", "B 1 0 R A", tape
\* 0 0 0, head 0, initial state A) the first step returns true and gives tape
\* 1 0 0, head 1, state B; the second step returns false; the run halts
\* after exactly one successful step in that configuration.
C8_Example ==
    IsExample =>
        /\ pc # "panic"
        /\ Len(output) <= 2
        /\ Len(output) = 0 =>
              /\ ret = "none"
              /\ machine = [tape |-> <<"0", "0", "0">>, head |-> 0, state |-> "A"]
        /\ Len(output) = 1 =>
              /\ ret = "true"
              /\ pc = "loop"
              /\ steps = 1
              /\ machine = ExampleFinal
        /\ Len(output) = 2 =>
              /\ ret = "false"
              /\ pc = "exit"
              /\ steps = 1
              /\ machine = ExampleFinal

\* C8 witness: the run of the example has halted.
C8_Witness == IsExample /\ pc = "exit" /\ Len(output) = 2

\* No rule has the operator's initial state as its current state.
InitialStateUnknown ==
    \A i \in 1..Len(turds) : turds[i].current # initial_state

\* C9: if the initial state is the current_state of no rule, then on every
\* non-empty tape the very first step returns false and leaves the tape,
\* the head (0) and the state as they were.
C9_UnknownInitialStateHalts ==
    (InitialStateUnknown /\ Len(binding) > 0) =>
        /\ ret \in {"none", "false"}
        /\ steps = 0
        /\ pc \in {"loop", "exit"}
        /\ (pc = "exit") <=> (ret = "false")
        /\ Len(output) <= 1
        /\ machine = [tape |-> binding, head |-> 0, state |-> initial_state]

\* C9 witness: the first step returned false for a state name that is in no
\* rule at all, with rules whose read symbol is the one under the head.
C9_Witness ==
    /\ initial_state = "Z"
    /\ Len(binding) > 0
    /\ Len(turds) > 0
    /\ \A i \in 1..Len(turds) : turds[i].read = binding[1]
    /\ ret = "false"
    /\ pc = "exit"

\* C10: when the tape file yields no token the program fails explicitly
\* before it steps, and so never reaches the out-of-bounds read of
\* tape[head], whatever the rules and the initial state.
C10_EmptyTapeNeverIndexed ==
    (Len(binding) = 0) => (ret # "panic" /\ pc # "panic")

\* ------------------------------------- vocabulary of the rule-file claims

\* The whitespace-separated tokens of a line of text.
Words(line) == SelectSeq(line, LAMBDA item : item # " ")

IsBlank(line) == Words(line) = <<>>

NonBlank(file) == SelectSeq(file, LAMBDA line : ~IsBlank(line))

\* Exactly five tokens, the fourth "L" or "R".
WellFormed(line) ==
    /\ Len(Words(line)) = 5
    /\ Words(line)[4] \in {"L", "R"}

\* The rule a well-formed line stands for: current-state, read-symbol,
\* write-symbol, move, next-state.
RuleOf(line) ==
    LET w == Words(line)
    IN  [ current |-> w[1], read |-> w[2], write |-> w[3],
          step |-> IF w[4] = "L" THEN "L" ELSE "R", next |-> w[5] ]

Malformed(line) == ~IsBlank(line) /\ ~WellFormed(line)

HasMalformed(file) == \E i \in 1..Len(file) : Malformed(file[i])

\* The number, in the file, of its earliest malformed line.
FirstMalformed(file) ==
    CHOOSE i \in 1..Len(file) :
        /\ Malformed(file[i])
        /\ \A j \in 1..(i - 1) : ~Malformed(file[j])

\* The number of non-blank lines among the first n lines of the file.
NonBlankUpTo(file, n) == Len(NonBlank(SubSeq(file, 1, n)))

\* main has read the rule file and gone through its lines.
FileRead ==
    /\ pc \notin {"args", "read_rules"}
    /\ error.at \notin {144, 151}

\* C11: when every non-blank line of the rule file has exactly 5 tokens with
\* the fourth "L" or "R", loading returns one rule per non-blank line, the
\* i-th rule built from the i-th non-blank line with its fields in the order
\* current-state, read-symbol, write-symbol, move, next-state; blank and
\* whitespace-only lines give no rule and no error wherever they are.
C11_LoadsEveryRuleInOrder ==
    (FileRead /\ ~HasMalformed(content)) =>
        /\ error.at # 163
        /\ Len(turds) = Len(NonBlank(content))
        /\ \A i \in 1..Len(turds) : turds[i] = RuleOf(NonBlank(content)[i])

\* C11 witness: a file of three lines, a whitespace-only line between two
\* rules, loaded as two rules.
C11_Witness ==
    /\ pc = "prompt"
    /\ Len(content) = 3
    /\ content[2] = <<" ">>
    /\ Len(turds) = 2
    /\ turds[1] # turds[2]

\* C12 as claimed: the line number of a Parse error is the 1-based position
\* of the bad line among the non-blank lines (blank lines before it are not
\* counted).
C12_LineNumberAfterFiltering ==
    (FileRead /\ error.kind = "Parse") =>
        error.line = NonBlankUpTo(content, FirstMalformed(content))

\* C12 as amended: when the earliest malformed line of the rule file has a
\* token count other than 5, loading fails with a Parse error whose line
\* number is the 1-based number of that line in the file, blank lines
\* before it counted.
C12_LineNumberInFile ==
    ( /\ FileRead
      /\ HasMalformed(content)
      /\ Len(Words(content[FirstMalformed(content)])) # 5 ) =>
        /\ error.kind = "Parse"
        /\ error.line = FirstMalformed(content)

\* C12 witness: a Parse error for the third line of a file whose first line
\* is blank.
C12_Witness ==
    /\ error.kind = "Parse"
    /\ error.line = 3
    /\ IsBlank(content[1])
    /\ WellFormed(content[2])

\* C13: a line of exactly 5 tokens whose fourth token is anything but "L" or
\* "R" fails with a Transformation error naming exactly that token; "L" and
\* "R" are the only tokens accepted and give Left and Right.
C13_MoveToken ==
    /\ ( /\ FileRead
         /\ HasMalformed(content)
         /\ Len(Words(content[FirstMalformed(content)])) = 5 ) =>
           /\ error.kind = "Transformation"
           /\ error.token = Words(content[FirstMalformed(content)])[4]
           /\ error.token \notin {"L", "R"}
    /\ (FileRead /\ error.at # 163) =>
           \A i \in 1..Len(turds) :
              /\ Words(NonBlank(content)[i])[4] \in {"L", "R"}
              /\ turds[i].step = Words(NonBlank(content)[i])[4]

\* C13 witness: a Transformation error naming the token "l", from the
\* second line of a file.
C13_Witness ==
    /\ error.kind = "Transformation"
    /\ error.token = "l"
    /\ Len(content) >= 2
    /\ WellFormed(content[1])

\* The error the specification prescribes for malformed line number n.
ErrorOf(line, n) ==
    IF Len(Words(line)) # 5
      THEN [kind |-> "Parse", line |-> n, token |-> ""]
      ELSE [kind |-> "Transformation", line |-> 0, token |-> Words(line)[4]]

\* C14: loading stops at the first failure: the error returned is the one of
\* the earliest malformed line of the file, Parse or Transformation as that
\* line has it, no rule sequence is returned, and the other lines change
\* nothing.
C14_FirstFailureWins ==
    (FileRead /\ HasMalformed(content)) =>
        LET n == FirstMalformed(content)
        IN  /\ pc = "failed"
            /\ error.at = 163
            /\ [kind |-> error.kind, line |-> error.line, token |-> error.token]
                  = ErrorOf(content[n], n)
            /\ turds = <<>>
            /\ states = <<>>

\* C14 witness: a rule, then a line with a bad move, then a line with a
\* wrong token count; the error is the one of the second line.
C14_Witness ==
    /\ Len(content) = 3
    /\ WellFormed(content[1])
    /\ Malformed(content[2])
    /\ Len(Words(content[2])) = 5
    /\ Malformed(content[3])
    /\ Len(Words(content[3])) # 5
    /\ error.kind = "Transformation"

\* C15: fail-fast: when reading the rule file, parsing a rule line, reading
\* the initial-state line or reading the tape file fails, the run ends
\* there: no step is ever executed and no configuration is ever printed.
C15_FailFast ==
    /\ []( (error.kind # "none" \/ HasMalformed(content)) =>
              /\ pc \in {"failed", "panic"}
              /\ error.kind # "none"
              /\ output = <<>>
              /\ ret = "none"
              /\ steps = 0
              /\ machine = NoMachine )
    /\ [][error.kind # "none" => UNCHANGED vars]_vars

\* C15 witness: the tape file could not be read, after the rules had loaded
\* and the operator had answered.
C15_Witness ==
    /\ pc = "failed"
    /\ error.at = 174
    /\ Len(turds) = 2
    /\ initial_state = "A"
    /\ output = <<>>

\* C15 witness of the parse case: a malformed line after a rule.
C15_WitnessParse ==
    /\ pc = "failed"
    /\ Len(content) >= 2
    /\ WellFormed(content[1])
    /\ HasMalformed(content)

\* C16: distinct_states is exactly the set of names that are the
\* current_state or next_state of a rule, each once, in ascending
\* lexicographic order; it is empty for an empty rule sequence.
C16_DistinctStates ==
    /\ { states[i] : i \in 1..Len(states) } =
          { turds[i].current : i \in 1..Len(turds) } \cup
          { turds[i].next : i \in 1..Len(turds) }
    /\ \A i \in 1..Len(states) : \A j \in (i + 1)..Len(states) :
          StrLess(states[i], states[j])
    /\ turds = <<>> => states = <<>>

\* C16 witness: three names, one a prefix of another, listed in an order
\* that is not the order the rules mention them in.
C16_Witness ==
    /\ states = <<"A", "AB", "B">>
    /\ turds[1].current = "B"

\* C17: the configuration is printed once before the first step and once
\* after every successful step: a run that halts after k successful steps
\* has printed k+1 configurations in execution order, the first the initial
\* one (head 0, the operator's state), the last the halted one, and then
\* exits with success.
C17_DisplayOrder ==
    /\ pc = "loop" => Len(output) = steps
    /\ pc = "exit" =>
          /\ error = NoError
          /\ Len(output) = steps + 1
          /\ output[1] = [tape |-> binding, head |-> 0, state |-> initial_state]
          /\ output[Len(output)] = machine
          /\ \A k \in 1..(Len(output) - 1) :
                /\ HasMatch(output[k], turds)
                /\ output[k + 1] =
                      Effect(output[k], turds[FirstMatch(output[k], turds)])

\* C17 witness: a run that halted after three successful steps.
C17_Witness ==
    /\ pc = "exit"
    /\ steps = 3
    /\ Len(output) = 4

\* C18: the head stays in range: on a non-empty tape every reachable
\* configuration has 0 <= head < tape length, so the read of tape[head]
\* never goes out of bounds and the decrement never underflows.
C18_HeadInRange ==
    (Len(binding) > 0) =>
        /\ machine.head >= 0
        /\ machine.head < Len(machine.tape)
        /\ ret # "panic"
        /\ pc # "panic"

\* C18 witness: on a tape of three cells the head went Left from 0 to 2 and
\* a later step read the cell there.
C18_Witness ==
    /\ Len(binding) = 3
    /\ Len(output) >= 2
    /\ output[Len(output) - 1].head = 0
    /\ Before.head = 2
    /\ ret = "true"

\* C19: a step that returns true changes at most the cell the head was on
\* before the move; every other cell keeps its value, and no step changes
\* the rule sequence.
C19_Frame ==
    [][ /\ turds' = turds
        /\ (Called /\ ret' = "true") =>
              /\ Len(machine'.tape) = Len(machine.tape)
              /\ \A k \in 1..Len(machine.tape) :
                    k # machine.head + 1 => machine'.tape[k] = machine.tape[k]
      ]_vars

\* C19 witness: on a tape of three cells a second step changed one cell.
C19_Witness ==
    /\ ret = "true"
    /\ steps >= 2
    /\ Len(machine.tape) = 3
    /\ machine.tape # Before.tape

\* C20: every cell holds the symbol it had on the initial tape or the
\* write_symbol of some rule, the state is the operator's initial state or
\* the next_state of some rule, and after a successful step the state is a
\* member of distinct_states(rules).
C20_Closure ==
    /\ \A k \in 1..Len(machine.tape) :
          \/ k <= Len(binding) /\ machine.tape[k] = binding[k]
          \/ \E i \in 1..Len(turds) : machine.tape[k] = turds[i].write
    /\ \/ machine.state = initial_state
       \/ \E i \in 1..Len(turds) : machine.state = turds[i].next
    /\ ret = "true" =>
          \E i \in 1..Len(states_of_turds(turds)) :
              states_of_turds(turds)[i] = machine.state

\* C20 witness: a run changed a cell and left the initial state.
C20_Witness ==
    /\ ret = "true"
    /\ machine.state # initial_state
    /\ \E k \in 1..Len(binding) : machine.tape[k] # binding[k]

=============================================================================
